---- MODULE Spec2Model ----
(***************************************************************************)
(* State-machine model of the e-commerce backend (ecommerce-backend/):     *)
(* the checkout of a cart into an order (orders/serializers.py), the       *)
(* order-created signal and its confirmation task (orders/signals.py,      *)
(* orders/tasks.py), the stock tasks and the periodic sweep                *)
(* (catalog/tasks.py, core/tasks.py) and payment initiation                *)
(* (payments/serializers.py, payments/views.py, payments/tasks.py).        *)
(*                                                                         *)
(* Database model: READ COMMITTED with row locks.  A request running       *)
(* inside transaction.atomic keeps its writes in a private write set       *)
(* (the tx_* fields of its record) that becomes visible to every other     *)
(* request only when the transaction commits, and is dropped when an       *)
(* exception leaves the atomic block.  SELECT ... FOR UPDATE and UPDATE    *)
(* take a row lock held until the transaction ends.                        *)
(***************************************************************************)
EXTENDS Integers, Sequences, FiniteSets, TLC

\* ------------------------------------------------------------------ bounds
MaxRequests == 2    \* checkout requests in one behaviour
MaxQty      == 2    \* largest quantity of a cart line
MaxStock    == 2    \* largest stock quantity of a product or variation
MaxPayments == 2    \* payment-initiate requests in one behaviour
MaxCallbacks == 2   \* callbacks the gateway delivers in one behaviour
MaxItemRequests == 2  \* cart-item requests in one behaviour

\* ---------------------------------------------------------------- universe
Users       == {"u1", "u2"}
Products    == {"A"}
Variations  == {"B"}
None        == "None"
CartIds     == {1, 2}
Procs       == 1..MaxRequests
PayIds      == 1..MaxPayments
ItemReqs    == 1..MaxItemRequests
\* Delivery addresses an order request may carry.
Addresses   == {"addr1", "addr2"}
\* Unit prices in the smallest currency unit: cart lines carry a snapshot.
Prices      == {10, 25}

\* ProductVariation.product: the parent product of a variation.
VariationProduct(v) == "A"

Max(a, b) == IF a >= b THEN a ELSE b

VARIABLES
    products,     \* Product rows:          [quantity, in_stock, price]
    variations,   \* ProductVariation rows: [quantity, in_stock, price]
    carts,        \* Cart rows:             [user, checked_out]
    cartItems,    \* CartItem rows of each cart, in primary-key order
    orders,       \* committed Order rows
    orderItems,   \* committed OrderItem rows
    shipments,    \* committed Shipment rows
    confirm,      \* send_order_confirmation task of each order id
    eager,        \* CELERY_TASK_ALWAYS_EAGER
    req,          \* the checkout requests (OrderViewSet.create)
    payments,     \* Payment rows
    payreq,       \* the payment-initiate requests (CreatePaymentView)
    paytask,      \* process_mpesa_payment task of each payment id
    gateway,      \* what the payment gateway holds for each payment id
    itemreq       \* the cart-item requests (CartItemViewSet)

db   == <<products, variations, carts, cartItems, orders, orderItems, shipments>>
pay  == <<payments, payreq, paytask, gateway>>
vars == <<products, variations, carts, cartItems, orders, orderItems, shipments,
          confirm, eager, req, payments, payreq, paytask, gateway, itemreq>>

\* ------------------------------------------------------------ row helpers
\* CartItem: (product, variation, quantity, price); variation may be null.
CartItemRows ==
    [product: Products, variation: Variations \cup {None},
     quantity: 1..MaxQty, price: Prices]

\* unique_together = ("cart", "product", "variation") as get_or_create keeps it.
UniqueLines(s) ==
    \A i, j \in 1..Len(s) :
        (s[i].product = s[j].product /\ s[i].variation = s[j].variation) => i = j

CartContents ==
    {s \in UNION {[1..n -> CartItemRows] : n \in 0..2} : UniqueLines(s)}

\* The stock counter a line draws from: the variation if it has one, else the product.
Counter(line) == IF line.variation # None THEN line.variation ELSE line.product

\* The committed quantity of a stock counter.
StockOf(k) == IF k \in Variations THEN variations[k].quantity ELSE products[k].quantity

RECURSIVE LineTotals(_)
LineTotals(s) ==
    IF s = <<>> THEN 0
    ELSE s[1].price * s[1].quantity + LineTotals(Tail(s))

\* A checkout request before OrderViewSet.create is called.
IdleReq ==
    [pc |-> "idle", user |-> "none", cart_id |-> 0, error |-> "",
     rows |-> <<>>, i |-> 1, items |-> <<>>, total |-> 0,
     tx_order |-> FALSE, tx_total |-> 0, tx_shipment |-> FALSE,
     tx_items |-> <<>>, tx_stock |-> <<>>, tx_checked |-> FALSE]

\* Requests inside the atomic block of create().
TxnPcs == {"locked", "created", "fetched", "inserted", "totalled", "marked"}

InTxn(p) == req[p].pc \in TxnPcs

\* Row locks held by request p: the cart row and the stock rows it has written.
HoldsCart(p, c) == InTxn(p) /\ req[p].cart_id = c
HoldsStock(p, k) == InTxn(p) /\ \E n \in 1..Len(req[p].tx_stock) : req[p].tx_stock[n].key = k


\* ------------------------------------------------- checkout: validation
\* validate_cart_id: the message it raises for (user, cart id), or "ok".
\* validate_cart_id without its checked_out test.
ValidateCartIdNoFlag(u, c) ==
    IF c \notin CartIds \/ carts[c].user # u THEN "Cart not found."
    ELSE "ok"

\* validate_cart_id looking the cart up by primary key alone.
ValidateCartIdAnyUser(u, c) ==
    IF c \notin CartIds \/ carts[c].user = "none" THEN "Cart not found."
    ELSE IF carts[c].checked_out THEN "Cart has already been checked out."
    ELSE "ok"

\* validate_cart_id with a test of each line's quantity against its counter.
ValidateCartIdChecksStock(u, c) ==
    IF c \notin CartIds \/ carts[c].user # u THEN "Cart not found."
    ELSE IF carts[c].checked_out THEN "Cart has already been checked out."
    ELSE IF \E n \in 1..Len(cartItems[c]) :
              cartItems[c][n].quantity > StockOf(Counter(cartItems[c][n]))
         THEN "Insufficient stock."
    ELSE "ok"

ValidateCartId(u, c) ==
    IF c \notin CartIds \/ carts[c].user # u THEN "Cart not found."
    ELSE IF carts[c].checked_out THEN "Cart has already been checked out."
    ELSE "ok"

\* OrderCreateSerializer.is_valid(): runs before create(), outside the transaction.
\* Requests are numbered in their order of arrival.
validate_cart_id(p) ==
    /\ req[p].pc = "idle"
    /\ \A q \in Procs : q < p => req[q].pc # "idle"
    /\ \E u \in Users, c \in CartIds :
         LET msg == ValidateCartId(u, c) IN
         req' = [req EXCEPT ![p] =
                   [@ EXCEPT !.user = u, !.cart_id = c, !.error = IF msg = "ok" THEN "" ELSE msg,
                             !.pc = IF msg = "ok" THEN "validated" ELSE "error"]]
    /\ UNCHANGED <<db, confirm, eager, pay, itemreq>>

\* ------------------------------------------------ checkout: create()
\* Cart.objects.select_for_update().get(pk=cart_id, user=request.user): opens the
\* transaction and waits for the cart's row lock.  The row read is not examined.
create_select_for_update(p) ==
    /\ req[p].pc = "validated"
    /\ \A q \in Procs \ {p} : ~HoldsCart(q, req[p].cart_id)
    /\ req' = [req EXCEPT ![p].pc = "locked"]
    /\ UNCHANGED <<db, confirm, eager, pay, itemreq>>

\* The state of the confirmation task once the post_save receiver has called
\* send_order_confirmation.delay(order.pk): run inline when eager (the task then
\* reads the order through the request's own transaction), else queued.
Notify(p) == IF eager THEN "sent" ELSE "queued"

\* The receiver never connected (orders.signals not imported in ready()).
ReceiverNotConnected(created) == FALSE

\* create_shipment_and_notify(sender, instance, created): whether the receiver
\* creates the Shipment and dispatches the confirmation.
create_shipment_and_notify(created) == created

\* create() that marks the cart checked out as soon as the order row exists.
create_order_marking_cart(p) ==
    /\ req[p].pc = "locked"
    /\ req' = [req EXCEPT ![p] =
                 [@ EXCEPT !.pc = "created", !.tx_order = TRUE, !.tx_total = 0,
                           !.tx_shipment = create_shipment_and_notify(TRUE),
                           !.tx_checked = TRUE,
                           !.total = 0, !.items = <<>>]]
    /\ confirm' = [confirm EXCEPT ![p] =
                      IF create_shipment_and_notify(TRUE) THEN Notify(p) ELSE @]
    /\ UNCHANGED <<db, eager, pay, itemreq>>

\* Order.objects.create(total_amount=0, status="pending"), and the post_save
\* receiver create_shipment_and_notify it triggers: Shipment.objects.create and
\* send_order_confirmation.delay, both before create() returns.
create_order(p) ==
    /\ req[p].pc = "locked"
    /\ req' = [req EXCEPT ![p] =
                 [@ EXCEPT !.pc = "created", !.tx_order = TRUE, !.tx_total = 0,
                           !.tx_shipment = create_shipment_and_notify(TRUE),
                           !.total = 0, !.items = <<>>]]
    /\ confirm' = [confirm EXCEPT ![p] =
                      IF create_shipment_and_notify(TRUE) THEN Notify(p) ELSE @]
    /\ UNCHANGED <<db, eager, pay, itemreq>>

\* cart.items.select_related("product", "variation").all(): one query loads every
\* line together with its own product and variation instances; stock is the
\* quantity of the instance the line will decrement.
FetchedRows(c) ==
    [n \in 1..Len(cartItems[c]) |->
        [product   |-> cartItems[c][n].product,
         variation |-> cartItems[c][n].variation,
         quantity  |-> cartItems[c][n].quantity,
         price     |-> cartItems[c][n].price,
         stock     |-> StockOf(Counter(cartItems[c][n]))]]

create_fetch_items(p) ==
    /\ req[p].pc = "created"
    /\ req' = [req EXCEPT ![p] =
                 [@ EXCEPT !.pc = "fetched", !.rows = FetchedRows(req[p].cart_id), !.i = 1]]
    /\ UNCHANGED <<db, confirm, eager, pay, itemreq>>

\* An order item priced from the live catalog instead of the line's snapshot.
BuildOrderItemLivePrice(item) ==
    [product |-> item.product, variation |-> item.variation,
     quantity |-> item.quantity,
     price |-> IF item.variation # None THEN variations[item.variation].price
               ELSE products[item.product].price]

\* OrderItem(order, product, variation, quantity, price=unit_price) for one line.
BuildOrderItem(item) ==
    [product |-> item.product, variation |-> item.variation,
     quantity |-> item.quantity, price |-> item.price]

\* The decrement without its clamp.
DecrementUnclamped(stock, quantity) == stock - quantity

\* max(counter.quantity - item.quantity, 0) on the loaded instance.
Decrement(stock, quantity) == Max(stock - quantity, 0)

\* The row written by save(update_fields=["quantity", "in_stock"]) for one line.
StockWrite(item) ==
    LET q == Decrement(item.stock, item.quantity) IN
    [key |-> Counter(item), quantity |-> q, in_stock |-> q > 0]

\* One iteration of the loop over the cart's lines.  The UPDATE waits for the
\* row lock of a concurrent transaction that has written the same stock row.
create_line(p) ==
    /\ req[p].pc = "fetched"
    /\ req[p].i <= Len(req[p].rows)
    /\ LET item == req[p].rows[req[p].i] IN
         /\ \A q \in Procs \ {p} : ~HoldsStock(q, Counter(item))
         /\ req' = [req EXCEPT ![p] =
                      [@ EXCEPT !.total = @ + item.price * item.quantity,
                                !.items = Append(@, BuildOrderItem(item)),
                                !.tx_stock = Append(@, StockWrite(item)),
                                !.i = @ + 1]]
    /\ UNCHANGED <<db, confirm, eager, pay, itemreq>>

\* OrderItem.objects.bulk_create(items)
create_bulk_create(p) ==
    /\ req[p].pc = "fetched"
    /\ req[p].i > Len(req[p].rows)
    /\ req' = [req EXCEPT ![p] = [@ EXCEPT !.pc = "inserted", !.tx_items = req[p].items]]
    /\ UNCHANGED <<db, confirm, eager, pay, itemreq>>

\* order.total_amount = total; order.save(update_fields=["total_amount"])
\* (order.save fires post_save with created = False; a receiver that created a
\* second Shipment would break the one-to-one constraint and raise.)
create_save_total(p) ==
    /\ ~create_shipment_and_notify(FALSE)
    /\ req[p].pc = "inserted"
    /\ req' = [req EXCEPT ![p] = [@ EXCEPT !.pc = "totalled", !.tx_total = req[p].total]]
    /\ UNCHANGED <<db, confirm, eager, pay, itemreq>>

\* cart.checked_out = True; cart.save(update_fields=["checked_out"])
create_mark_cart(p) ==
    /\ req[p].pc = "totalled"
    /\ req' = [req EXCEPT ![p] = [@ EXCEPT !.pc = "marked", !.tx_checked = TRUE]]
    /\ UNCHANGED <<db, confirm, eager, pay, itemreq>>

\* ------------------------------------------- transaction.atomic: the end
RECURSIVE ApplyStock(_, _, _)
ApplyStock(rows, ws, keys) ==
    IF ws = <<>> THEN rows
    ELSE ApplyStock(
            IF ws[1].key \in keys
            THEN [rows EXCEPT ![ws[1].key] =
                     [@ EXCEPT !.quantity = ws[1].quantity, !.in_stock = ws[1].in_stock]]
            ELSE rows,
            Tail(ws), keys)

\* The database with the write set of request p applied.
WithWrites(p) ==
    LET r == req[p] IN
    [products   |-> ApplyStock(products, r.tx_stock, Products),
     variations |-> ApplyStock(variations, r.tx_stock, Variations),
     carts      |-> IF r.tx_checked
                    THEN [carts EXCEPT ![r.cart_id].checked_out = TRUE]
                    ELSE carts,
     orders     |-> IF r.tx_order
                    THEN orders \cup {[id |-> p, user |-> r.user,
                                       total_amount |-> r.tx_total, status |-> "pending",
                                       address |-> "addr1"]}
                    ELSE orders,
     orderItems |-> orderItems \cup
                    {[order |-> p, n |-> n, product |-> r.tx_items[n].product,
                      variation |-> r.tx_items[n].variation,
                      quantity |-> r.tx_items[n].quantity,
                      price |-> r.tx_items[n].price] : n \in 1..Len(r.tx_items)},
     shipments  |-> IF r.tx_shipment
                    THEN shipments \cup {[order |-> p, status |-> "pending"]}
                    ELSE shipments]

\* The database as it stands, without the write set of request p.
WithoutWrites(p) ==
    [products |-> products, variations |-> variations, carts |-> carts,
     orders |-> orders, orderItems |-> orderItems, shipments |-> shipments]

\* The database after create() returns normally: the atomic block commits.
OnReturn(p) == WithWrites(p)

\* create() without transaction.atomic: the statements already run stay written.
OnExceptionNoAtomic(p) == WithWrites(p)

\* The database after an exception leaves create(): the atomic block rolls back.
OnException(p) == WithoutWrites(p)

\* A request that has left create(): its write set and its locals are gone; the
\* record keeps the request and its outcome.
Returned(r, pc, error) ==
    [IdleReq EXCEPT !.pc = pc, !.user = r.user, !.cart_id = r.cart_id, !.error = error]

SetDb(d) ==
    /\ products' = d.products
    /\ variations' = d.variations
    /\ carts' = d.carts
    /\ orders' = d.orders
    /\ orderItems' = d.orderItems
    /\ shipments' = d.shipments
    /\ UNCHANGED cartItems

\* create() returns the order: commit, the row locks are released.
create_commit(p) ==
    /\ req[p].pc = "marked"
    /\ SetDb(OnReturn(p))
    /\ req' = [req EXCEPT ![p] = Returned(req[p], "done", "")]
    /\ UNCHANGED <<confirm, eager, pay, itemreq>>

\* Any statement inside create() raises (storage error, deadlock victim, an eager
\* task's exception): rollback, the row locks are released.
create_exception(p) ==
    /\ InTxn(p)
    /\ SetDb(OnException(p))
    /\ req' = [req EXCEPT ![p] = Returned(req[p], "failed", "rollback")]
    /\ UNCHANGED <<confirm, eager, pay, itemreq>>

\* ------------------------------------------ orders/tasks.py: the worker
\* send_order_confirmation(order_id) on a worker: reads the committed order.
send_order_confirmation(o) ==
    /\ confirm[o] = "queued"
    /\ confirm' = [confirm EXCEPT ![o] =
                     IF \E ord \in orders : ord.id = o THEN "sent" ELSE "missing"]
    /\ UNCHANGED <<db, eager, req, pay, itemreq>>

\* ------------------------------------------------------- specification
\* No other checkout request is between its validation and its end.
Settled(q) == req[q].pc \in {"idle", "done", "error", "failed"}

\* A checkout request that arrives while no other one is running.
request_checkout(p) ==
    /\ \A q \in Procs \ {p} : Settled(q)
    /\ validate_cart_id(p)

\* No cart-item request.
IdleItemReq == [pc |-> "idle", op |-> "none", user |-> "none", cart |-> 0,
                product |-> "none", variation |-> None, quantity |-> 0, price |-> 0,
                error |-> ""]

\* No Payment row and no payment request.
NoPayment == [status |-> "absent", user |-> "none", order |-> 0, transaction_id |-> 0]
IdlePayReq == [pc |-> "idle", user |-> "none", order_id |-> 0, error |-> ""]

\* The gateway has been sent nothing for a payment: the outcome of the last
\* outbound call, the pushes it accepted, the callbacks it has delivered.
NoPush == [last |-> "none", pushes |-> 0, callbacks |-> 0]

NoPayments ==
    /\ payments = [r \in PayIds |-> NoPayment]
    /\ payreq = [r \in PayIds |-> IdlePayReq]
    /\ paytask = [r \in PayIds |-> "none"]
    /\ gateway = [r \in PayIds |-> NoPush]
    /\ itemreq = [k \in ItemReqs |-> IdleItemReq]

\* A catalog that satisfies the stock-flag rules, and two open carts, under the
\* default settings (DEBUG on: tasks run eagerly).
Init ==
    /\ \E sa \in 0..MaxStock, sb \in 0..MaxStock :
         /\ variations = [v \in Variations |->
                            [quantity |-> sb, in_stock |-> sb > 0, price |-> 25]]
         /\ products = [x \in Products |->
                            [quantity |-> sa, in_stock |-> (sa > 0 \/ sb > 0), price |-> 10]]
    /\ carts = [c \in CartIds |-> [user |-> IF c = 1 THEN "u1" ELSE "u2", checked_out |-> FALSE]]
    /\ \E s \in CartContents :
         cartItems = [c \in CartIds |->
                        IF c = 1 THEN s
                        ELSE <<[product |-> "A", variation |-> None, quantity |-> 1, price |-> 10]>>]
    /\ orders = {}
    /\ orderItems = {}
    /\ shipments = {}
    /\ confirm = [o \in Procs |-> "none"]
    /\ eager = TRUE
    /\ req = [p \in Procs |-> IdleReq]
    /\ NoPayments

\* Checkout requests served one at a time.
Next ==
    \/ \E p \in Procs : request_checkout(p)
    \/ \E p \in Procs : create_select_for_update(p)
    \/ \E p \in Procs : create_order(p)
    \/ \E p \in Procs : create_fetch_items(p)
    \/ \E p \in Procs : create_line(p)
    \/ \E p \in Procs : create_bulk_create(p)
    \/ \E p \in Procs : create_save_total(p)
    \/ \E p \in Procs : create_mark_cart(p)
    \/ \E p \in Procs : create_commit(p)
    \/ \E p \in Procs : create_exception(p)

Spec == Init /\ [][Next]_vars

\* Checkout requests served in parallel by the request workers.
\* Two open carts whose lines draw on the same stock counters.
InitConc ==
    /\ \E sa \in 0..MaxStock, sb \in 0..MaxStock :
         /\ variations = [v \in Variations |->
                            [quantity |-> sb, in_stock |-> sb > 0, price |-> 25]]
         /\ products = [x \in Products |->
                            [quantity |-> sa, in_stock |-> (sa > 0 \/ sb > 0), price |-> 10]]
    /\ carts = [c \in CartIds |-> [user |-> IF c = 1 THEN "u1" ELSE "u2", checked_out |-> FALSE]]
    /\ \E q1 \in 1..MaxQty, q2 \in 1..MaxQty, v \in Variations \cup {None} :
         cartItems = [c \in CartIds |->
                        IF c = 1
                        THEN <<[product |-> "A", variation |-> v, quantity |-> q1, price |-> 10]>>
                        ELSE <<[product |-> "A", variation |-> None, quantity |-> q2, price |-> 10],
                               [product |-> "A", variation |-> "B", quantity |-> 1, price |-> 25]>>]
    /\ orders = {}
    /\ orderItems = {}
    /\ shipments = {}
    /\ confirm = [o \in Procs |-> "none"]
    /\ eager \in BOOLEAN
    /\ req = [p \in Procs |-> IdleReq]
    /\ NoPayments

NextConc ==
    \/ \E p \in Procs : validate_cart_id(p)
    \/ \E p \in Procs : create_select_for_update(p)
    \/ \E p \in Procs : create_order(p)
    \/ \E p \in Procs : create_fetch_items(p)
    \/ \E p \in Procs : create_line(p)
    \/ \E p \in Procs : create_bulk_create(p)
    \/ \E p \in Procs : create_save_total(p)
    \/ \E p \in Procs : create_mark_cart(p)
    \/ \E p \in Procs : create_commit(p)
    \/ \E p \in Procs : create_exception(p)
    \/ \E o \in Procs : send_order_confirmation(o)

SpecConc == InitConc /\ [][NextConc]_vars

\* ------------------------------------- catalog/tasks.py, core/tasks.py
\* update_product_stock(product_id, quantity)
update_product_stock(x, q) ==
    /\ products' = [products EXCEPT ![x] = [@ EXCEPT !.quantity = q, !.in_stock = q > 0]]
    /\ UNCHANGED <<variations, carts, cartItems, orders, orderItems, shipments,
                   confirm, eager, req, pay, itemreq>>

\* has_stock in update_variation_stock, read after the variation is saved:
\* product.quantity > 0 or product.variations.filter(in_stock=True).exists()
HasStock(x, vs) ==
    products[x].quantity > 0 \/ \E w \in Variations : VariationProduct(w) = x /\ vs[w].in_stock

\* update_variation_stock(variation_id, quantity): the variation, then its parent
\* product's flag when it differs from has_stock.
update_variation_stock(v, q) ==
    LET vs == [variations EXCEPT ![v] = [@ EXCEPT !.quantity = q, !.in_stock = q > 0]]
        x == VariationProduct(v)
    IN
    /\ variations' = vs
    /\ products' = IF products[x].in_stock # HasStock(x, vs)
                   THEN [products EXCEPT ![x].in_stock = HasStock(x, vs)]
                   ELSE products
    /\ UNCHANGED <<carts, cartItems, orders, orderItems, shipments,
                   confirm, eager, req, pay, itemreq>>

\* The sweep with a filter on in_stock alone.
SweptAnyQuantity(rows) ==
    [x \in Products |->
        IF rows[x].in_stock THEN [rows[x] EXCEPT !.in_stock = FALSE] ELSE rows[x]]

\* Product.objects.filter(quantity=0, in_stock=True).update(in_stock=False): the
\* product rows after the statement.
Swept(rows) ==
    [x \in Products |->
        IF rows[x].quantity = 0 /\ rows[x].in_stock
        THEN [rows[x] EXCEPT !.in_stock = FALSE]
        ELSE rows[x]]

\* disable_out_of_stock_products(): one UPDATE statement.
disable_out_of_stock_products ==
    /\ products' = Swept(products)
    /\ UNCHANGED <<variations, carts, cartItems, orders, orderItems, shipments,
                   confirm, eager, req, pay, itemreq>>

\* A variation row as Django creates it when the request gives no stock fields:
\* quantity default 0, in_stock default True.
NewVariation == [quantity |-> 0, in_stock |-> TRUE, price |-> 25]

\* The catalog with its stock tasks: the variation is either freshly created or
\* has a stock and the flag that goes with it; the product's flag follows the
\* product rule; cart 1 holds one line.
InitStock ==
    /\ \E sa \in 0..MaxStock, vrow \in {NewVariation} \cup
                 {[quantity |-> sb, in_stock |-> sb > 0, price |-> 25] : sb \in 0..MaxStock} :
         /\ variations = [v \in Variations |-> vrow]
         /\ products = [x \in Products |->
                          [quantity |-> sa, in_stock |-> (sa > 0 \/ vrow.in_stock), price |-> 10]]
    /\ carts = [c \in CartIds |-> [user |-> IF c = 1 THEN "u1" ELSE "u2", checked_out |-> FALSE]]
    /\ \E q1 \in 1..MaxQty, v \in Variations \cup {None} :
         cartItems = [c \in CartIds |->
                        IF c = 1
                        THEN <<[product |-> "A", variation |-> v, quantity |-> q1,
                                price |-> IF v = None THEN 10 ELSE 25]>>
                        ELSE <<>>]
    /\ orders = {}
    /\ orderItems = {}
    /\ shipments = {}
    /\ confirm = [o \in Procs |-> "none"]
    /\ eager = TRUE
    /\ req = [p \in Procs |-> IdleReq]
    /\ NoPayments

NextStock ==
    \/ \E x \in Products, q \in 0..MaxStock : update_product_stock(x, q)
    \/ \E v \in Variations, q \in 0..MaxStock : update_variation_stock(v, q)
    \/ disable_out_of_stock_products
    \/ \E p \in Procs : request_checkout(p)
    \/ \E p \in Procs : create_select_for_update(p)
    \/ \E p \in Procs : create_order(p)
    \/ \E p \in Procs : create_fetch_items(p)
    \/ \E p \in Procs : create_line(p)
    \/ \E p \in Procs : create_bulk_create(p)
    \/ \E p \in Procs : create_save_total(p)
    \/ \E p \in Procs : create_mark_cart(p)
    \/ \E p \in Procs : create_commit(p)
    \/ \E p \in Procs : create_exception(p)

SpecStock == InitStock /\ [][NextStock]_vars

\* ------------------------------------------------------------ payments
\* validate_order_id without its test for a successful payment.
ValidateOrderIdNoPaidTest(u, o) ==
    IF ~\E ord \in orders : ord.id = o THEN "Order not found."
    ELSE IF \E ord \in orders : ord.id = o /\ ord.user # u
         THEN "Cannot pay for someone else's order."
    ELSE "ok"

\* validate_order_id without its test of the order's owner.
ValidateOrderIdNoOwnerTest(u, o) ==
    IF ~\E ord \in orders : ord.id = o THEN "Order not found."
    ELSE IF \E r \in PayIds : payments[r].order = o /\ payments[r].status = "success"
         THEN "Order is already paid."
    ELSE "ok"

\* PaymentCreateSerializer.validate_order_id: the message it raises, or "ok".
ValidateOrderId(u, o) ==
    IF ~\E ord \in orders : ord.id = o THEN "Order not found."
    ELSE IF \E ord \in orders : ord.id = o /\ ord.user # u
         THEN "Cannot pay for someone else's order."
    ELSE IF \E r \in PayIds : payments[r].order = o /\ payments[r].status = "success"
         THEN "Order is already paid."
    ELSE "ok"

\* The order ids a payment request may name: 0 stands for no order_id field,
\* 1 is the order of the initial state, 2 an id no order has.
OrderIdInputs == {0, 1, 2}

\* serializer.is_valid() of CreatePaymentView: validate_order_id runs only when
\* the field is given.  Requests are numbered in their order of arrival.
validate_order_id(r) ==
    /\ payreq[r].pc = "idle"
    /\ \A q \in PayIds : q < r => payreq[q].pc # "idle"
    /\ \E u \in Users, o \in OrderIdInputs :
         LET msg == IF o = 0 THEN "ok" ELSE ValidateOrderId(u, o) IN
         payreq' = [payreq EXCEPT ![r] =
                      [pc |-> IF msg = "ok" THEN "validated" ELSE "rejected",
                       user |-> u, order_id |-> o,
                       error |-> IF msg = "ok" THEN "" ELSE msg]]
    /\ UNCHANGED <<db, confirm, eager, req, itemreq, payments, paytask, gateway>>

\* response.get("CheckoutRequestID") of the k-th push the gateway accepts for
\* payment r: a fresh identifier for every push.
CheckoutRequestID(r, k) == r + (k - 1) * MaxPayments

\* The gateway after one outbound call for payment r.
Called(g, accepted) ==
    IF accepted THEN [g EXCEPT !.last = "accepted", !.pushes = @ + 1]
    ELSE [g EXCEPT !.last = "error"]

\* process_mpesa_payment marking the payment failed when the gateway call raises.
ProcessMpesaMarksFailed(row, r, accepted) ==
    IF row.status = "absent" THEN row
    ELSE IF ~accepted THEN [row EXCEPT !.status = "failed"]
    ELSE [row EXCEPT !.transaction_id = CheckoutRequestID(r, gateway[r].pushes + 1),
                     !.status = "pending"]

\* lipa_na_mpesa inside process_mpesa_payment, for one outcome of the gateway
\* call: on a 2xx answer the CheckoutRequestID is stored and status set to
\* "pending"; an exception is caught and printed, the row is left as it is.
ProcessMpesa(row, r, accepted) ==
    IF row.status = "absent" \/ ~accepted THEN row
    ELSE [row EXCEPT !.transaction_id = CheckoutRequestID(r, gateway[r].pushes + 1),
                     !.status = "pending"]

\* PaymentCreateSerializer.create: the Payment row of request r.
CreatedPayment(r) ==
    [status |-> "pending", user |-> payreq[r].user,
     order |-> payreq[r].order_id, transaction_id |-> 0]

\* CreatePaymentView.perform_create: serializer.save(), then
\* process_mpesa_payment.delay(payment.pk), run inline when eager.
perform_create(r) ==
    /\ payreq[r].pc = "validated"
    /\ payreq' = [payreq EXCEPT ![r].pc = "created"]
    /\ IF eager
       THEN \E accepted \in BOOLEAN :
              /\ payments' = [payments EXCEPT ![r] = ProcessMpesa(CreatedPayment(r), r, accepted)]
              /\ gateway' = [gateway EXCEPT ![r] = Called(@, accepted)]
              /\ paytask' = [paytask EXCEPT ![r] = "succeeded"]
       ELSE /\ payments' = [payments EXCEPT ![r] = CreatedPayment(r)]
            /\ paytask' = [paytask EXCEPT ![r] = "queued"]
            /\ UNCHANGED gateway
    /\ UNCHANGED <<db, confirm, eager, req, itemreq>>

\* The outcome Celery records for a run of process_mpesa_payment: the body
\* catches every exception, so the run ends normally whatever the gateway did.
TaskOutcome(accepted) == "succeeded"

\* process_mpesa_payment(payment_id) on a worker, for a first delivery or a
\* redelivery of the message.
process_mpesa_payment(r) ==
    /\ paytask[r] \in {"queued", "redelivered"}
    /\ \E accepted \in BOOLEAN :
         /\ payments' = [payments EXCEPT ![r] = ProcessMpesa(payments[r], r, accepted)]
         /\ gateway' = [gateway EXCEPT ![r] = Called(@, accepted)]
         /\ paytask' = [paytask EXCEPT ![r] =
                          IF paytask[r] = "queued" THEN TaskOutcome(accepted) ELSE "rerun"]
    /\ UNCHANGED <<db, confirm, eager, req, itemreq, payreq>>

\* The broker delivers the message of a task a second time (at-least-once
\* delivery: the consumer was lost after the body ran, before the acknowledgement).
redeliver(r) ==
    /\ ~eager
    /\ paytask[r] = "succeeded"
    /\ paytask' = [paytask EXCEPT ![r] = "redelivered"]
    /\ UNCHANGED <<db, confirm, eager, req, itemreq, payments, payreq, gateway>>

\* The callback handler without its test for a resolved payment.
CallbackReplay(row, result, id) ==
    [row EXCEPT !.status = result, !.transaction_id = id]

\* What the callback handler does to a Payment row: a pending payment is resolved
\* to the gateway's result and stamped with the transaction id; a resolved
\* payment is left as it is.

Callback(row, result, id) ==
    IF row.status = "pending" THEN [row EXCEPT !.status = result, !.transaction_id = id]
    ELSE row

\* The callbacks delivered so far for the payments 1..n.
RECURSIVE Delivered(_)
Delivered(n) == IF n = 0 THEN 0 ELSE gateway[n].callbacks + Delivered(n - 1)

\* The inbound callback of the gateway for a push it accepted (the CallBackURL of
\* lipa_na_mpesa), delivered once or again.
payment_callback(r, result) ==
    /\ gateway[r].pushes > 0
    /\ Delivered(MaxPayments) < MaxCallbacks
    /\ payments' = [payments EXCEPT ![r] =
                      Callback(@, result, CheckoutRequestID(r, gateway[r].pushes))]
    /\ gateway' = [gateway EXCEPT ![r].callbacks = @ + 1]
    /\ UNCHANGED <<db, confirm, eager, req, itemreq, payreq, paytask>>

\* The state after user u1 has checked out cart 1: order 1, pending.
InitPay ==
    /\ variations = [v \in Variations |-> [quantity |-> 1, in_stock |-> TRUE, price |-> 25]]
    /\ products = [x \in Products |-> [quantity |-> 1, in_stock |-> TRUE, price |-> 10]]
    /\ carts = [c \in CartIds |-> [user |-> IF c = 1 THEN "u1" ELSE "u2", checked_out |-> c = 1]]
    /\ cartItems = [c \in CartIds |->
                      IF c = 1
                      THEN <<[product |-> "A", variation |-> None, quantity |-> 1, price |-> 10]>>
                      ELSE <<>>]
    /\ orders = {[id |-> 1, user |-> "u1", total_amount |-> 10, status |-> "pending",
                   address |-> "addr1"]}
    /\ orderItems = {[order |-> 1, n |-> 1, product |-> "A", variation |-> None,
                      quantity |-> 1, price |-> 10]}
    /\ shipments = {[order |-> 1, status |-> "pending"]}
    /\ confirm = [o \in Procs |-> IF o = 1 THEN "sent" ELSE "none"]
    /\ eager \in BOOLEAN
    /\ req = [p \in Procs |->
                IF p = 1 THEN Returned([user |-> "u1", cart_id |-> 1], "done", "") ELSE IdleReq]
    /\ NoPayments

NextPay ==
    \/ \E r \in PayIds : validate_order_id(r)
    \/ \E r \in PayIds : perform_create(r)
    \/ \E r \in PayIds : process_mpesa_payment(r)
    \/ \E r \in PayIds : redeliver(r)
    \/ \E r \in PayIds, result \in {"success", "failed"} : payment_callback(r, result)

SpecPay == InitPay /\ [][NextPay]_vars

\* ------------------------------------------- orders/views.py: cart items
\* The response of a cart-item request: what is left of the request once it ends.
Responded(r, pc, error) ==
    [IdleItemReq EXCEPT !.pc = pc, !.op = r.op, !.user = r.user, !.error = error]

\* A Cart row that does not exist has no user.
OpenCarts(u) == {c \in CartIds : carts[c].user = u /\ ~carts[c].checked_out}

\* Cart.objects.filter(user=..., checked_out=False).first() under the ordering
\* -created_at: the user's most recent open cart, 0 when there is none.
FirstOpenCart(u) ==
    IF OpenCarts(u) = {} THEN 0
    ELSE CHOOSE c \in OpenCarts(u) : \A d \in OpenCarts(u) : d <= c

\* The rows of a cart for one (product, variation) pair.
LinesOf(rows, x, v) == {n \in 1..Len(rows) : rows[n].product = x /\ rows[n].variation = v}

\* The product ids an add-item request may name: "Z" is the id of no product.
ProductInputs == Products \cup {"Z"}

\* AddCartItemSerializer.validate: the product and the variation exist, the
\* unit price is the variation's price if there is one, else the product's.
add_validate(k) ==
    /\ itemreq[k].pc = "idle"
    /\ \A j \in ItemReqs : j < k => itemreq[j].pc # "idle"
    /\ \E u \in Users, x \in ProductInputs, v \in Variations \cup {None}, q \in 1..MaxQty :
         itemreq' = [itemreq EXCEPT ![k] =
            IF x \notin Products
            THEN [IdleItemReq EXCEPT !.pc = "rejected", !.op = "add", !.user = u,
                                     !.error = "Invalid product ID."]
            ELSE IF v # None /\ VariationProduct(v) # x
            THEN [IdleItemReq EXCEPT !.pc = "rejected", !.op = "add", !.user = u,
                                     !.error = "Invalid variation for this product."]
            ELSE [IdleItemReq EXCEPT !.pc = "validated", !.op = "add", !.user = u,
                                     !.product = x, !.variation = v, !.quantity = q,
                                     !.price = IF v # None THEN variations[v].price
                                               ELSE products[x].price]]
    /\ UNCHANGED <<db, confirm, eager, req, pay>>

\* perform_create, Cart.objects.get_or_create(user=..., checked_out=False): the
\* lookup.  Two open carts raise MultipleObjectsReturned.
add_get_cart(k) ==
    /\ itemreq[k].pc = "validated"
    /\ LET open == OpenCarts(itemreq[k].user) IN
       itemreq' = [itemreq EXCEPT ![k] =
          IF open = {} THEN [@ EXCEPT !.pc = "no_cart"]
          ELSE IF Cardinality(open) = 1
          THEN [@ EXCEPT !.pc = "have_cart", !.cart = FirstOpenCart(itemreq[k].user)]
          ELSE Responded(@, "failed", "MultipleObjectsReturned")]
    /\ UNCHANGED <<db, confirm, eager, req, pay>>

\* get_or_create when the lookup found nothing: a new open cart of the user,
\* under the next primary key.
add_create_cart(k) ==
    /\ itemreq[k].pc = "no_cart"
    /\ \E c \in CartIds :
         /\ carts[c].user = "none"
         /\ \A d \in CartIds : d < c => carts[d].user # "none"
         /\ carts' = [carts EXCEPT ![c] = [user |-> itemreq[k].user, checked_out |-> FALSE]]
         /\ itemreq' = [itemreq EXCEPT ![k] = [@ EXCEPT !.pc = "have_cart", !.cart = c]]
    /\ UNCHANGED <<products, variations, cartItems, orders, orderItems, shipments,
                   confirm, eager, req, pay>>

\* The keys of the serializer context that GenericAPIView.get_serializer_context
\* gives AddCartItemSerializer; perform_create passes the cart as save(cart=cart),
\* a keyword save() does not read.
SerializerContext == {"request", "format", "view"}

\* CartItem.objects.get_or_create(cart, product, variation, defaults=...) and the
\* increment of an existing line.
SaveLine(rows, x, v, q, price) ==
    IF LinesOf(rows, x, v) # {}
    THEN LET n == CHOOSE m \in LinesOf(rows, x, v) : TRUE
         IN [rows EXCEPT ![n].quantity = @ + q]
    ELSE Append(rows, [product |-> x, variation |-> v, quantity |-> q, price |-> price])

\* AddCartItemSerializer.save: cart = self.context["cart"], then the line.
add_save(k) ==
    /\ itemreq[k].pc = "have_cart"
    /\ LET r == itemreq[k] IN
       IF "cart" \in SerializerContext
       THEN /\ cartItems' = [cartItems EXCEPT ![r.cart] =
                               SaveLine(@, r.product, r.variation, r.quantity, r.price)]
            /\ itemreq' = [itemreq EXCEPT ![k] = Responded(@, "done", "")]
       ELSE /\ itemreq' = [itemreq EXCEPT ![k] = Responded(@, "failed", "KeyError")]
            /\ UNCHANGED cartItems
    /\ UNCHANGED <<products, variations, carts, orders, orderItems, shipments,
                   confirm, eager, req, pay>>

\* get_object() of an update or destroy request: the line is looked up among the
\* items of the user's open cart (get_queryset); none gives 404.
item_get_object(k) ==
    /\ itemreq[k].pc = "idle"
    /\ \A j \in ItemReqs : j < k => itemreq[j].pc # "idle"
    /\ \E u \in Users, op \in {"update", "destroy"}, x \in Products,
          v \in Variations \cup {None}, q \in 0..MaxQty :
         LET c == FirstOpenCart(u) IN
         /\ op = "destroy" => q = 1
         /\ itemreq' = [itemreq EXCEPT ![k] =
              IF c # 0 /\ LinesOf(cartItems[c], x, v) # {}
              THEN [IdleItemReq EXCEPT !.pc = "got", !.op = op, !.user = u, !.cart = c,
                                       !.product = x, !.variation = v, !.quantity = q]
              ELSE [IdleItemReq EXCEPT !.pc = "rejected", !.op = op, !.user = u,
                                       !.error = "Not found."]]
    /\ UNCHANGED <<db, confirm, eager, req, pay>>

\* UpdateCartItemSerializer, quantity = IntegerField(min_value=1): the message
\* of the field, or "ok".
ValidateQuantity(q) ==
    IF q < 1 THEN "Ensure this value is greater than or equal to 1." ELSE "ok"

\* An update that also copies the current catalog price into the line.
UpdateLineRepriced(row, q) ==
    [row EXCEPT !.quantity = q,
                !.price = IF row.variation # None THEN variations[row.variation].price
                          ELSE products[row.product].price]

\* UpdateCartItemSerializer.update: the quantity is assigned and saved with
\* update_fields=["quantity"].
UpdateLine(row, q) == [row EXCEPT !.quantity = q]

\* CartItemViewSet.update: the quantity is validated, then
\* UpdateCartItemSerializer.update saves the line; a row deleted in the meantime
\* raises DatabaseError.
item_update(k) ==
    /\ itemreq[k].pc = "got"
    /\ itemreq[k].op = "update"
    /\ LET r == itemreq[k]
           ns == LinesOf(cartItems[r.cart], r.product, r.variation)
       IN
       IF ValidateQuantity(r.quantity) # "ok"
       THEN /\ itemreq' = [itemreq EXCEPT ![k] =
                             Responded(@, "rejected", ValidateQuantity(r.quantity))]
            /\ UNCHANGED cartItems
       ELSE IF ns # {}
       THEN /\ cartItems' = [cartItems EXCEPT ![r.cart] =
                               [n \in 1..Len(@) |->
                                  IF n \in ns THEN UpdateLine(@[n], r.quantity)
                                  ELSE @[n]]]
            /\ itemreq' = [itemreq EXCEPT ![k] = Responded(@, "done", "")]
       ELSE /\ itemreq' = [itemreq EXCEPT ![k] = Responded(@, "failed", "DatabaseError")]
            /\ UNCHANGED cartItems
    /\ UNCHANGED <<products, variations, carts, orders, orderItems, shipments,
                   confirm, eager, req, pay>>

\* The rows of a sequence that do not match a pair, in order.
RECURSIVE Without(_, _, _)
Without(rows, x, v) ==
    IF rows = <<>> THEN <<>>
    ELSE IF Head(rows).product = x /\ Head(rows).variation = v
         THEN Without(Tail(rows), x, v)
         ELSE <<Head(rows)>> \o Without(Tail(rows), x, v)

\* perform_destroy: instance.delete().
item_destroy(k) ==
    /\ itemreq[k].pc = "got"
    /\ itemreq[k].op = "destroy"
    /\ cartItems' = [cartItems EXCEPT ![itemreq[k].cart] =
                       Without(@, itemreq[k].product, itemreq[k].variation)]
    /\ itemreq' = [itemreq EXCEPT ![k] = Responded(@, "done", "")]
    /\ UNCHANGED <<products, variations, carts, orders, orderItems, shipments,
                   confirm, eager, req, pay>>

\* One open cart of u1 with one or two lines; u2 has no cart yet.
InitCart ==
    /\ variations = [v \in Variations |-> [quantity |-> MaxStock, in_stock |-> TRUE, price |-> 25]]
    /\ products = [x \in Products |-> [quantity |-> MaxStock, in_stock |-> TRUE, price |-> 10]]
    /\ carts = [c \in CartIds |-> IF c = 1 THEN [user |-> "u1", checked_out |-> FALSE]
                                  ELSE [user |-> "none", checked_out |-> FALSE]]
    /\ \E two \in BOOLEAN, q1 \in 1..MaxQty :
         cartItems = [c \in CartIds |->
            IF c # 1 THEN <<>>
            ELSE IF two
            THEN <<[product |-> "A", variation |-> None, quantity |-> q1, price |-> 10],
                   [product |-> "A", variation |-> "B", quantity |-> 1, price |-> 25]>>
            ELSE <<[product |-> "A", variation |-> None, quantity |-> q1, price |-> 10]>>]
    /\ orders = {}
    /\ orderItems = {}
    /\ shipments = {}
    /\ confirm = [o \in Procs |-> "none"]
    /\ eager = TRUE
    /\ req = [p \in Procs |-> IdleReq]
    /\ NoPayments

\* The cart-item requests, interleaved with the steps of one checkout request.
NextCart ==
    \/ \E k \in ItemReqs : add_validate(k)
    \/ \E k \in ItemReqs : add_get_cart(k)
    \/ \E k \in ItemReqs : add_create_cart(k)
    \/ \E k \in ItemReqs : add_save(k)
    \/ \E k \in ItemReqs : item_get_object(k)
    \/ \E k \in ItemReqs : item_update(k)
    \/ \E k \in ItemReqs : item_destroy(k)
    \/ validate_cart_id(1)
    \/ create_select_for_update(1)
    \/ create_order(1)
    \/ create_fetch_items(1)
    \/ create_line(1)
    \/ create_bulk_create(1)
    \/ create_save_total(1)
    \/ create_mark_cart(1)
    \/ create_commit(1)
    \/ create_exception(1)

SpecCart == InitCart /\ [][NextCart]_vars

\* As InitCart, or with no Cart row at all: no user has a cart yet.
InitOpenCart ==
    \/ InitCart
    \/ /\ variations = [v \in Variations |->
                           [quantity |-> MaxStock, in_stock |-> TRUE, price |-> 25]]
       /\ products = [x \in Products |->
                         [quantity |-> MaxStock, in_stock |-> TRUE, price |-> 10]]
       /\ carts = [c \in CartIds |-> [user |-> "none", checked_out |-> FALSE]]
       /\ cartItems = [c \in CartIds |-> <<>>]
       /\ orders = {}
       /\ orderItems = {}
       /\ shipments = {}
       /\ confirm = [o \in Procs |-> "none"]
       /\ eager = TRUE
       /\ req = [p \in Procs |-> IdleReq]
       /\ NoPayments

\* Concurrent cart-item requests and one checkout, from either start.
SpecOpenCart == InitOpenCart /\ [][NextCart]_vars

\* A cart-item request that is not in flight.
Answered(j) == itemreq[j].pc \in {"idle", "rejected", "failed", "done"}

\* A client that sends its cart-item requests one after another: a request
\* arrives once the earlier ones have been answered.
request_add(k) ==
    /\ \A j \in ItemReqs : Answered(j)
    /\ add_validate(k)

request_item(k) ==
    /\ \A j \in ItemReqs : Answered(j)
    /\ item_get_object(k)

\* Cart-item requests sent one after another, interleaved with the steps of one
\* checkout request.
NextCartSeq ==
    \/ \E k \in ItemReqs : request_add(k)
    \/ \E k \in ItemReqs : add_get_cart(k)
    \/ \E k \in ItemReqs : add_create_cart(k)
    \/ \E k \in ItemReqs : add_save(k)
    \/ \E k \in ItemReqs : request_item(k)
    \/ \E k \in ItemReqs : item_update(k)
    \/ \E k \in ItemReqs : item_destroy(k)
    \/ validate_cart_id(1)
    \/ create_select_for_update(1)
    \/ create_order(1)
    \/ create_fetch_items(1)
    \/ create_line(1)
    \/ create_bulk_create(1)
    \/ create_save_total(1)
    \/ create_mark_cart(1)
    \/ create_commit(1)
    \/ create_exception(1)

SpecCartSeq == InitCart /\ [][NextCartSeq]_vars

\* -------------------------------- orders/views.py: the order endpoints
\* What a PUT or PATCH of an order may carry.
OrderData == [address : Addresses, total_amount : {0}, status : {"pending", "delivered"}]

\* OrderSerializer with status left writable.
UpdateOrderStatusWritable(ord, data) ==
    [ord EXCEPT !.address = data.address, !.status = data.status]

\* OrderSerializer with total_amount left writable.
UpdateOrderTotalWritable(ord, data) ==
    [ord EXCEPT !.address = data.address, !.total_amount = data.total_amount]

\* OrderSerializer on update: id, user, total_amount, status, items and shipment
\* are read-only, the delivery fields are written.
UpdateOrder(ord, data) == [ord EXCEPT !.address = data.address]

\* OrderViewSet.update / partial_update on one of the user's own orders.
order_update(u, o, data) ==
    /\ \E ord \in orders :
         /\ ord.id = o
         /\ ord.user = u
         /\ orders' = (orders \ {ord}) \cup {UpdateOrder(ord, data)}
    /\ UNCHANGED <<products, variations, carts, cartItems, orderItems, shipments,
                   confirm, eager, req, pay, itemreq>>

\* OrderViewSet.destroy on one of the user's own orders: the order, and by
\* cascade its items and its shipment.
order_destroy(u, o) ==
    /\ \E ord \in orders :
         /\ ord.id = o
         /\ ord.user = u
         /\ orders' = orders \ {ord}
    /\ orderItems' = {it \in orderItems : it.order # o}
    /\ shipments' = {sh \in shipments : sh.order # o}
    /\ UNCHANGED <<products, variations, carts, cartItems,
                   confirm, eager, req, pay, itemreq>>

\* ProductViewSet.update by an administrator: a new price.
product_update_price(x, price) ==
    /\ products[x].price # price
    /\ products' = [products EXCEPT ![x].price = price]
    /\ UNCHANGED <<variations, carts, cartItems, orders, orderItems, shipments,
                   confirm, eager, req, pay, itemreq>>

\* ProductVariationViewSet.update by an administrator: a new price.
variation_update_price(v, price) ==
    /\ variations[v].price # price
    /\ variations' = [variations EXCEPT ![v].price = price]
    /\ UNCHANGED <<products, carts, cartItems, orders, orderItems, shipments,
                   confirm, eager, req, pay, itemreq>>

\* Stock for every line, cart 1 with any contents, cart 2 with one line.
\* Cart-item requests sent one after another while an administrator changes
\* the catalog prices.
NextPrice ==
    \/ \E k \in ItemReqs : request_add(k)
    \/ \E k \in ItemReqs : add_get_cart(k)
    \/ \E k \in ItemReqs : add_create_cart(k)
    \/ \E k \in ItemReqs : add_save(k)
    \/ \E k \in ItemReqs : request_item(k)
    \/ \E k \in ItemReqs : item_update(k)
    \/ \E k \in ItemReqs : item_destroy(k)
    \/ \E x \in Products, price \in Prices : product_update_price(x, price)
    \/ \E v \in Variations, price \in Prices : variation_update_price(v, price)

SpecPrice == InitCart /\ [][NextPrice]_vars

InitOrder ==
    /\ variations = [v \in Variations |-> [quantity |-> MaxStock, in_stock |-> TRUE, price |-> 25]]
    /\ products = [x \in Products |-> [quantity |-> MaxStock, in_stock |-> TRUE, price |-> 10]]
    /\ carts = [c \in CartIds |-> [user |-> IF c = 1 THEN "u1" ELSE "u2", checked_out |-> FALSE]]
    /\ \E s \in CartContents :
         cartItems = [c \in CartIds |->
                        IF c = 1 THEN s
                        ELSE <<[product |-> "A", variation |-> None, quantity |-> 1, price |-> 10]>>]
    /\ orders = {}
    /\ orderItems = {}
    /\ shipments = {}
    /\ confirm = [o \in Procs |-> "none"]
    /\ eager = TRUE
    /\ req = [p \in Procs |-> IdleReq]
    /\ NoPayments

\* Checkout requests served one at a time, with order updates and deletions and
\* price changes between their steps.
NextOrder ==
    \/ \E p \in Procs : request_checkout(p)
    \/ \E p \in Procs : create_select_for_update(p)
    \/ \E p \in Procs : create_order(p)
    \/ \E p \in Procs : create_fetch_items(p)
    \/ \E p \in Procs : create_line(p)
    \/ \E p \in Procs : create_bulk_create(p)
    \/ \E p \in Procs : create_save_total(p)
    \/ \E p \in Procs : create_mark_cart(p)
    \/ \E p \in Procs : create_commit(p)
    \/ \E p \in Procs : create_exception(p)
    \/ \E u \in Users, o \in Procs, data \in OrderData : order_update(u, o, data)
    \/ \E u \in Users, o \in Procs : order_destroy(u, o)
    \/ \E x \in Products, price \in Prices : product_update_price(x, price)
    \/ \E v \in Variations, price \in Prices : variation_update_price(v, price)

SpecOrder == InitOrder /\ [][NextOrder]_vars

\* ------------------------------------------------------------ the claims
\* Rows of request p's order in the committed tables.
OrderOf(p) == {ord \in orders : ord.id = p}
ItemsOf(p) == {it \in orderItems : it.order = p}
ShipmentsOf(p) == {sh \in shipments : sh.order = p}

\* A step of request p.
Steps(p) == req'[p] # req[p]

\* C1: a successful checkout of a cart with N cart items leaves an order with
\* exactly N order items, the n-th copying (product, variation, quantity, price)
\* of the n-th cart item, and total_amount = sum of price * quantity.
C1_CheckoutCopiesCart ==
    \A p \in Procs :
        req[p].pc = "done" =>
            LET lines == cartItems[req[p].cart_id] IN
            /\ Cardinality(ItemsOf(p)) = Len(lines)
            /\ \A n \in 1..Len(lines) :
                 \E it \in ItemsOf(p) :
                    /\ it.n = n
                    /\ it.product = lines[n].product
                    /\ it.variation = lines[n].variation
                    /\ it.quantity = lines[n].quantity
                    /\ it.price = lines[n].price
            /\ Cardinality(OrderOf(p)) = 1
            /\ \A ord \in OrderOf(p) : ord.total_amount = LineTotals(lines)

\* A committed checkout of a two-line cart whose snapshot prices differ from the
\* catalog's current prices.
C1_Witness ==
    \E p \in Procs :
        /\ req[p].pc = "done"
        /\ Len(cartItems[req[p].cart_id]) = 2
        /\ cartItems[req[p].cart_id][1].price = 25
        /\ cartItems[req[p].cart_id][1].variation = None
        /\ \E ord \in OrderOf(p) : ord.total_amount > 0

\* C2: a checkout request that arrives for a cart already checked out ends with
\* "Cart has already been checked out.", changes no row, and stays ended; so no
\* cart has more than one committed checkout (one pass over its lines).
C2_SecondCheckoutRejected ==
    [][/\ \A p \in Procs :
            (/\ req[p].pc = "idle"
             /\ Steps(p)
             /\ carts[req'[p].cart_id].user = req'[p].user
             /\ carts[req'[p].cart_id].checked_out)
            => (/\ req'[p].pc = "error"
                /\ req'[p].error = "Cart has already been checked out."
                /\ UNCHANGED <<db, confirm>>)
       /\ \A p \in Procs :
            req[p].pc = "error" =>
                (/\ ~Steps(p)
                 /\ OrderOf(p) = {} /\ ItemsOf(p) = {} /\ ShipmentsOf(p) = {}
                 /\ confirm[p] = "none")
       /\ \A c \in CartIds :
            Cardinality({p \in Procs : req'[p].pc = "done" /\ req'[p].cart_id = c}) <= 1
      ]_vars

\* A second checkout of a cart refused after the first one committed.
C2_Witness ==
    \E p, q \in Procs :
        /\ req[p].pc = "done"
        /\ req[q].pc = "error"
        /\ req[q].error = "Cart has already been checked out."
        /\ req[q].cart_id = req[p].cart_id

\* C3: two concurrent checkout requests on the same open cart create at most one
\* order for it (and so decrement its lines at most once).
C3_AtMostOneOrderPerCart ==
    \A c \in CartIds :
        Cardinality({ord \in orders : req[ord.id].cart_id = c}) <= 1

\* C4: a checkout that fails inside create() leaves no Order, OrderItem or
\* Shipment of its own and no stock change in the committed state, and the cart
\* open: nothing it wrote is visible before it commits or after it rolls back.
C4_RollbackLeavesNothing ==
    [][\A p \in Procs :
          (Steps(p) /\ req'[p].pc \in TxnPcs \cup {"failed"})
          => (/\ UNCHANGED db
              /\ ~carts'[req'[p].cart_id].checked_out
              /\ {ord \in orders' : ord.id = p} = {}
              /\ {it \in orderItems' : it.order = p} = {}
              /\ {sh \in shipments' : sh.order = p} = {})
      ]_vars

\* A checkout rolled back after it created the order shell (the receiver ran).
C4_Witness ==
    \E p \in Procs :
        /\ req[p].pc = "failed"
        /\ confirm[p] # "none"

\* C5: no confirmation task is enqueued or run for an order whose checkout has
\* rolled back (the notification happens only once the checkout has committed).
C5_NoNotifyOnRollback ==
    \A o \in Procs : req[o].pc = "failed" => confirm[o] = "none"

\* C6: a committing checkout leaves the stock counter of each of its lines at
\* max(s - q, 0), s the counter before; and no quantity is ever negative.
C6_ClampedDecrement ==
    [][/\ \A p \in Procs :
            (req[p].pc = "marked" /\ req'[p].pc = "done") =>
                \A n \in 1..Len(cartItems[req[p].cart_id]) :
                    LET line == cartItems[req[p].cart_id][n]
                        k == Counter(line)
                        after == IF k \in Variations THEN variations'[k].quantity
                                 ELSE products'[k].quantity
                    IN after = Max(StockOf(k) - line.quantity, 0)
       /\ \A x \in Products : products'[x].quantity >= 0
       /\ \A v \in Variations : variations'[v].quantity >= 0
      ]_vars

\* A checkout about to commit a line that asked for more than the stock it read.
C6_Witness ==
    \E p \in Procs :
        /\ req[p].pc = "marked"
        /\ \E n \in 1..Len(req[p].rows) :
             /\ req[p].rows[n].quantity > req[p].rows[n].stock
             /\ req[p].rows[n].stock > 0
             /\ req[p].tx_stock[n].quantity = 0

\* A step that changes stock: a checkout commit, a stock task or the sweep.
StockStep ==
    \/ \E p \in Procs : req[p].pc = "marked" /\ req'[p].pc = "done"
    \/ \E x \in Products, q \in 0..MaxStock : update_product_stock(x, q)
    \/ \E v \in Variations, q \in 0..MaxStock : update_variation_stock(v, q)
    \/ disable_out_of_stock_products

\* C7: after a checkout decrement, a stock-update task or the sweep, every
\* variation has in_stock = (quantity > 0).
C7_VariationFlagAfterStockStep ==
    [][StockStep =>
         \A v \in Variations : variations'[v].in_stock = (variations'[v].quantity > 0)]_vars

\* The product rule: in_stock iff own quantity > 0 or some variation in stock.
ProductRule(x) ==
    products[x].in_stock
      = (products[x].quantity > 0
         \/ \E v \in Variations : VariationProduct(v) = x /\ variations[v].in_stock)

\* C8: a product with variations is in stock iff its own quantity is positive or
\* one of its variations is in stock, after every checkout, stock-update task
\* and sweep: stated for the steps that start where every flag obeys its rule.
C8_ProductFlagAfterStockStep ==
    [][(/\ StockStep
        /\ \A v \in Variations : variations[v].in_stock = (variations[v].quantity > 0)
        /\ \A x \in Products : ProductRule(x))
       => \A x \in Products : ProductRule(x)']_vars

\* The order named by a payment request has a successful payment.
Paid(o) == \E r \in PayIds : payments[r].order = o /\ payments[r].status = "success"

\* C9: a payment-initiate request naming an order that already has a successful
\* payment is rejected at validation: the step creates no Payment row and
\* dispatches no task, and the rejected request never gets either.
C9_PaidOrderRejected ==
    [][/\ \A r \in PayIds :
            (/\ payreq[r].pc = "idle"
             /\ payreq'[r] # payreq[r]
             /\ payreq'[r].order_id # 0
             /\ Paid(payreq'[r].order_id))
            => (/\ payreq'[r].pc = "rejected"
                /\ (\E ord \in orders : ord.id = payreq'[r].order_id /\ ord.user = payreq'[r].user)
                      => payreq'[r].error = "Order is already paid."
                /\ UNCHANGED <<payments, paytask, gateway>>)
       /\ \A r \in PayIds :
            payreq[r].pc = "rejected" =>
                (/\ payreq'[r] = payreq[r]
                 /\ payments'[r] = NoPayment
                 /\ paytask'[r] = "none"
                 /\ gateway'[r] = NoPush)
      ]_vars

\* A request refused because the order had a successful payment.
C9_Witness ==
    \E r \in PayIds :
        /\ payreq[r].pc = "rejected"
        /\ payreq[r].error = "Order is already paid."
        /\ Paid(payreq[r].order_id)
        /\ payments[r] = NoPayment

\* C10: an order never has more than one Payment with status success.
C10_AtMostOneSuccess ==
    \A ord \in orders :
        Cardinality({r \in PayIds : payments[r].order = ord.id
                                    /\ payments[r].status = "success"}) <= 1

\* A run of process_mpesa_payment for payment r ends in this step.
TaskRan(r) == paytask'[r] # paytask[r] /\ paytask'[r] \in {"succeeded", "failed", "rerun"}

\* The outbound call of the run failed: the gateway accepted no new push.
CallFailed(r) == gateway'[r].pushes = gateway[r].pushes

Resolved(row) == row.status \in {"success", "failed"}

C13_FailedCallSurfaced ==
    \A r \in PayIds : paytask[r] = "succeeded" => gateway[r].last # "error"

\* C14: a second execution of process_mpesa_payment for a payment whose push the
\* gateway has already accepted leaves the Payment's status and transaction_id
\* as they were before it.
C14_RerunLeavesPayment ==
    [][\A r \in PayIds :
         (paytask[r] = "redelivered" /\ paytask'[r] = "rerun" /\ gateway[r].pushes > 0)
         => /\ payments'[r].status = payments[r].status
            /\ payments'[r].transaction_id = payments[r].transaction_id]_vars

\* The quantity a cart holds for a pair: 0 when it has no such line.
RECURSIVE QuantityOf(_, _, _)
QuantityOf(rows, x, v) ==
    IF rows = <<>> THEN 0
    ELSE (IF Head(rows).product = x /\ Head(rows).variation = v THEN Head(rows).quantity ELSE 0)
         + QuantityOf(Tail(rows), x, v)

\* Request k, an add that has its cart, ends in this step.
AddEnds(k) == itemreq[k].pc = "have_cart" /\ itemreq'[k].pc # "have_cart"

\* C15: an add-item request that has passed validation and has its open cart
\* (found or lazily created) succeeds and leaves exactly one line for its
\* (product, variation) pair, whose quantity is what the cart held for the pair
\* plus the requested quantity.
C15_AddMergesLine ==
    [][\A k \in ItemReqs :
         AddEnds(k) =>
           LET r == itemreq[k] IN
           /\ itemreq'[k].pc = "done"
           /\ Cardinality(LinesOf(cartItems'[r.cart], r.product, r.variation)) = 1
           /\ QuantityOf(cartItems'[r.cart], r.product, r.variation)
                = QuantityOf(cartItems[r.cart], r.product, r.variation) + r.quantity]_vars

\* C16: (cart, product, variation) is unique among the cart items in every
\* state, and an add-item request that ends while another add for the same pair
\* of the same user is in flight still raises the line's quantity by its own.
C16_UniqueLineConcurrentAdd ==
    [][/\ \A c \in CartIds : UniqueLines(cartItems'[c])
       /\ \A k \in ItemReqs :
            (/\ AddEnds(k)
             /\ \E j \in ItemReqs \ {k} :
                  /\ itemreq[j].pc \in {"validated", "no_cart", "have_cart"}
                  /\ itemreq[j].user = itemreq[k].user
                  /\ itemreq[j].product = itemreq[k].product
                  /\ itemreq[j].variation = itemreq[k].variation)
            => QuantityOf(cartItems'[itemreq[k].cart], itemreq[k].product, itemreq[k].variation)
                 = QuantityOf(cartItems[itemreq[k].cart], itemreq[k].product, itemreq[k].variation)
                   + itemreq[k].quantity]_vars

\* C17: once a cart is checked out, no step changes its cart items.
C17_CheckedOutCartFrozen ==
    [][\A c \in CartIds : carts[c].checked_out => cartItems'[c] = cartItems[c]]_vars

\* C18: checked_out never goes from true back to false, a checked-out cart keeps
\* its user, and only the commit of a checkout of that cart sets it to true.
C18_CheckedOutOnceForGood ==
    [][\A c \in CartIds :
         /\ carts[c].checked_out => carts'[c] = carts[c]
         /\ (~carts[c].checked_out /\ carts'[c].checked_out)
            => \E p \in Procs : /\ req[p].pc = "marked"
                                /\ req'[p].pc = "done"
                                /\ req[p].cart_id = c]_vars

\* A cart checked out by a committed checkout, after which a cart-item request
\* of its user has been answered.
C18_Witness ==
    \E c \in CartIds, p \in Procs, k \in ItemReqs :
        /\ carts[c].checked_out
        /\ req[p].pc = "done"
        /\ req[p].cart_id = c
        /\ itemreq[k].pc \in {"rejected", "failed", "done"}
        /\ itemreq[k].user = carts[c].user

\* C19: every committed order has exactly one shipment, with status pending, and
\* every shipment belongs to a committed order (none is left by a rollback).
C19_OneShipmentPerOrder ==
    /\ \A ord \in orders :
         /\ Cardinality(ShipmentsOf(ord.id)) = 1
         /\ \A sh \in ShipmentsOf(ord.id) : sh.status = "pending"
    /\ \A sh \in shipments : OrderOf(sh.order) # {}

\* One checkout has committed its order and shipment, another has been rolled
\* back after the receiver ran.
C19_Witness ==
    \E p, q \in Procs :
        /\ req[p].pc = "done"
        /\ OrderOf(p) # {}
        /\ ShipmentsOf(p) # {}
        /\ req[q].pc = "failed"
        /\ confirm[q] # "none"
        /\ ShipmentsOf(q) = {}

\* C20: an order item carries the unit price of the cart line it was copied
\* from, whatever the catalog price is by then; and once committed, an order
\* item keeps its product, variation, quantity and price and an order keeps its
\* total_amount for as long as the order exists, through price changes and
\* through every order request.
C20_OrderItemsImmutable ==
    [][/\ \A p \in Procs :
            (req[p].pc = "marked" /\ req'[p].pc = "done")
            => \A it \in {i2 \in orderItems' : i2.order = p} :
                   it.price = cartItems[req[p].cart_id][it.n].price
       /\ \A it \in orderItems :
            (\E ord \in orders' : ord.id = it.order) => it \in orderItems'
       /\ \A ord \in orders : \A ord2 \in orders' :
            ord2.id = ord.id => (ord2.total_amount = ord.total_amount /\ ord2.user = ord.user)
      ]_vars

\* A committed order whose address was rewritten and whose item's price differs
\* from the product's current price.
C20_Witness ==
    \E ord \in orders :
        /\ ord.address = "addr2"
        /\ ord.total_amount > 0
        /\ \E it \in ItemsOf(ord.id) :
             /\ it.variation = None
             /\ it.price # products[it.product].price

\* C21: every committed order owns at least one order item.
C21_OrderHasItems ==
    \A ord \in orders : ItemsOf(ord.id) # {}

\* C22: a checkout request that names a cart which does not exist or belongs to
\* another user ends with "Cart not found.", changes no row in that step, and
\* never creates an order, an order item or a shipment afterwards.
C22_ForeignCartNotFound ==
    [][/\ \A p \in Procs :
            (/\ req[p].pc = "idle"
             /\ Steps(p)
             /\ carts[req'[p].cart_id].user # req'[p].user)
            => (/\ req'[p].pc = "error"
                /\ req'[p].error = "Cart not found."
                /\ UNCHANGED <<db, confirm>>)
       /\ \A p \in Procs :
            (req[p].pc = "error" /\ req[p].error = "Cart not found.")
            => (/\ ~Steps(p)
                /\ {ord \in orders' : ord.id = p} = {}
                /\ {it \in orderItems' : it.order = p} = {}
                /\ {sh \in shipments' : sh.order = p} = {})
      ]_vars

\* A request refused for the open cart of another user.
C22_Witness ==
    \E p \in Procs :
        /\ req[p].pc = "error"
        /\ req[p].error = "Cart not found."
        /\ carts[req[p].cart_id].user \notin {"none", req[p].user}
        /\ ~carts[req[p].cart_id].checked_out

\* C23: a payment that references an order references an order of the payment's
\* own user; a payment-initiate request that names an order which does not
\* exist or belongs to another user is rejected, creates no Payment, dispatches
\* no task and makes no gateway call.
C23_PaymentOrderOwned ==
    [][/\ \A r \in PayIds :
            (payments'[r].status # "absent" /\ payments'[r].order # 0)
            => \E ord \in orders' : ord.id = payments'[r].order /\ ord.user = payments'[r].user
       /\ \A r \in PayIds :
            (/\ payreq[r].pc = "idle"
             /\ payreq'[r] # payreq[r]
             /\ payreq'[r].order_id # 0
             /\ ~\E ord \in orders : ord.id = payreq'[r].order_id /\ ord.user = payreq'[r].user)
            => (/\ payreq'[r].pc = "rejected"
                /\ payreq'[r].error = IF \E ord \in orders : ord.id = payreq'[r].order_id
                                      THEN "Cannot pay for someone else's order."
                                      ELSE "Order not found."
                /\ UNCHANGED <<payments, paytask, gateway>>)
       /\ \A r \in PayIds :
            payreq[r].pc = "rejected" =>
                (/\ payreq'[r] = payreq[r]
                 /\ payments'[r].status = "absent"
                 /\ paytask'[r] = "none")
      ]_vars

\* One request refused for another user's order, one accepted for the user's own.
C23_Witness ==
    \E r, q \in PayIds :
        /\ payreq[r].pc = "rejected"
        /\ payreq[r].error = "Cannot pay for someone else's order."
        /\ payments[r] = NoPayment
        /\ payments[q].status # "absent"
        /\ payments[q].order # 0

\* The transitions of the order lifecycle: pending, paid, shipped, delivered in
\* that order, and cancelled from pending or paid.
LifecycleStep(a, b) ==
    <<a, b>> \in {<<"pending", "paid">>, <<"paid", "shipped">>, <<"shipped", "delivered">>,
                  <<"pending", "cancelled">>, <<"paid", "cancelled">>}

\* C24: every order is created with status pending, and no step, an update
\* request of a client included, changes the status of an order except along a
\* transition of the lifecycle.
C24_StatusLifecycle ==
    [][/\ \A ord2 \in orders' :
            (~\E ord \in orders : ord.id = ord2.id) => ord2.status = "pending"
       /\ \A ord \in orders : \A ord2 \in orders' :
            (ord2.id = ord.id /\ ord2.status # ord.status) => LifecycleStep(ord.status, ord2.status)
      ]_vars

\* An order a client has sent an update for, still pending.
C24_Witness ==
    \E ord \in orders :
        /\ ord.address = "addr2"
        /\ ord.status = "pending"
        /\ ShipmentsOf(ord.id) # {}

C26_FlagSetLast ==
    [][/\ \A p \in Procs :
            (~req[p].tx_checked /\ req'[p].tx_checked)
            => LET lines == cartItems[req[p].cart_id] IN
               /\ Len(req[p].tx_stock) = Len(lines)
               /\ Len(req[p].tx_items) = Len(lines)
               /\ req[p].tx_total = LineTotals(lines)
       /\ \A c \in CartIds :
            (~carts[c].checked_out /\ carts'[c].checked_out)
            => \E p \in Procs :
                 /\ req[p].cart_id = c
                 /\ req'[p].pc = "done"
                 /\ Cardinality({it \in orderItems' : it.order = p}) = Len(cartItems[c])
                 /\ \E ord \in orders' : ord.id = p /\ ord.total_amount = LineTotals(cartItems[c])
       /\ \A p \in Procs :
            req'[p].pc = "done"
            => /\ carts'[req'[p].cart_id].checked_out
               /\ Cardinality({it \in orderItems' : it.order = p})
                    = Len(cartItems'[req'[p].cart_id])
               /\ \E ord \in orders' :
                    ord.id = p /\ ord.total_amount = LineTotals(cartItems'[req'[p].cart_id])
      ]_vars

\* A committed checkout of a cart of two lines.
C26_Witness ==
    \E p \in Procs :
        /\ req[p].pc = "done"
        /\ Len(cartItems[req[p].cart_id]) = 2
        /\ carts[req[p].cart_id].checked_out
        /\ Cardinality(ItemsOf(p)) = 2
        /\ \E ord \in OrderOf(p) : ord.total_amount > 0

\* C27: a run of the sweep disable_out_of_stock_products leaves no product with
\* quantity 0 and in_stock true, changes no quantity, no variation and no
\* product whose quantity is positive, and a second run right after it would
\* change nothing.
C27_SweepIdempotent ==
    [][disable_out_of_stock_products
       => /\ \A x \in Products : ~(products'[x].quantity = 0 /\ products'[x].in_stock)
          /\ \A x \in Products : products'[x].quantity = products[x].quantity
          /\ \A x \in Products : products[x].quantity > 0 => products'[x] = products[x]
          /\ variations' = variations
          /\ Swept(products') = products'
      ]_vars

\* A product the sweep has disabled: no stock of its own, flag off, while its
\* variation is still flagged in stock, and no checkout has run.
C27_Witness ==
    /\ \E x \in Products : products[x].quantity = 0 /\ ~products[x].in_stock
    /\ \E v \in Variations : variations[v].in_stock
    /\ \A p \in Procs : req[p].pc = "idle"

\* C28: checkout tests no availability.  A request for the user's own open cart
\* is accepted whatever the stock; no request ends with a message other than
\* the two of validate_cart_id or the rollback of an exception; a committing
\* checkout writes each line's full requested quantity into its order item, also
\* when the counter holds less; and no counter goes below 0.
C28_NoAvailabilityCheck ==
    [][/\ \A p \in Procs :
            (/\ req[p].pc = "idle"
             /\ Steps(p)
             /\ carts[req'[p].cart_id].user = req'[p].user
             /\ ~carts[req'[p].cart_id].checked_out)
            => req'[p].pc = "validated"
       /\ \A p \in Procs :
            req'[p].error \in {"", "Cart not found.", "Cart has already been checked out.",
                               "rollback"}
       /\ \A p \in Procs :
            (req[p].pc = "marked" /\ req'[p].pc = "done")
            => \A n \in 1..Len(req[p].rows) :
                 \E it \in orderItems' :
                    /\ it.order = p
                    /\ it.n = n
                    /\ it.quantity = req[p].rows[n].quantity
       /\ \A x \in Products : products'[x].quantity >= 0
       /\ \A v \in Variations : variations'[v].quantity >= 0
      ]_vars

\* Two committed checkouts of different carts whose lines on the same product
\* ask together for more than the counter ever held; the counter is at 0.
C28_Witness ==
    \E p, q \in Procs : \E it \in ItemsOf(p) : \E jt \in ItemsOf(q) :
        /\ p # q
        /\ req[p].pc = "done"
        /\ req[q].pc = "done"
        /\ req[p].cart_id # req[q].cart_id
        /\ it.variation = None
        /\ jt.variation = None
        /\ it.product = jt.product
        /\ it.quantity + jt.quantity > MaxStock
        /\ products[it.product].quantity = 0

\* C29: no stock decrement is lost.  When a checkout commits after a checkout of
\* a different cart has committed a line on the same counter, and the counter
\* still holds at least the quantity of its own line, the commit leaves the
\* counter at its committed value minus that quantity.
C29_NoLostDecrement ==
    [][\A p \in Procs : \A q \in Procs \ {p} :
          (/\ req[p].pc = "marked"
           /\ req'[p].pc = "done"
           /\ req[q].pc = "done"
           /\ req[q].cart_id # req[p].cart_id)
          => \A n \in 1..Len(cartItems[req[p].cart_id]) :
                LET line == cartItems[req[p].cart_id][n]
                    k == Counter(line)
                    after == IF k \in Variations THEN variations'[k].quantity
                             ELSE products'[k].quantity
                IN (/\ \E m \in 1..Len(cartItems[req[q].cart_id]) :
                          Counter(cartItems[req[q].cart_id][m]) = k
                    /\ StockOf(k) >= line.quantity)
                   => after = StockOf(k) - line.quantity
      ]_vars

\* C30: each user has at most one open cart.
C30_OneOpenCartPerUser ==
    \A u \in Users : Cardinality(OpenCarts(u)) <= 1

====
